---- MODULE Spec2Model ----
(***************************************************************************)
(* Model of susops_tray.py: the asynchronous command bridge (run_cmd,      *)
(* run_async, GLib idle hand-off) and the process-state controller of      *)
(* SusOpsApp (_startup_check, _poll, _on_poll_result, _rc_to_state,        *)
(* _apply_state, the Start/Stop/Restart handlers and _after_proxy_cmd),    *)
(* together with the handlers that run the CLI or open modal dialogs.      *)
(*                                                                         *)
(* Threads: one UI thread running the GTK main loop, one worker thread per *)
(* run_async call.  A handler is one action; a handler that opens a modal  *)
(* dialog (Gtk dialog.run() runs a nested main loop) pushes a frame on     *)
(* uistack and is finished by the action that closes the dialog.           *)
(***************************************************************************)
EXTENDS Integers, Sequences, FiniteSets, TLC

VARIABLES
    state,          \* SusOpsApp._state
    status_label,   \* markup of _status_label: <<dot, text>>
    icon,           \* icon shown by the indicator
    sens,           \* sensitivity of the five state-dependent menu items
    config,         \* SusOpsApp.config (in-memory AppConfig)
    store,          \* the persisted config document (~/.susops/config.yaml)
    threads,        \* worker threads of run_async still inside run_cmd
    idleq,          \* idle sources of the main context, in attach order
    uistack,        \* handlers blocked in a modal dialog, innermost last
    next_id,        \* number of the next run_async invocation
    cb_runs,        \* per invocation: executions of its callback so far
    quit,           \* Gtk.main_quit() has been called
    blocking,       \* the run_cmd call the latest UI-thread handler made itself
    cb_depth,       \* callbacks still executing when the latest one started
    last_apply,     \* the latest _apply_state call, if nothing touched the
                    \* controller since
    followup,       \* the most recent follow-up poll of _after_proxy_cmd
    last_poll,      \* id of the most recently issued status poll
    cl_rc,          \* input of the classifier check
    cl_state,       \* output of the classifier check
    startup,        \* what _startup_check did, and the welcome dialogs shown
    timer,          \* the source of GLib.timeout_add_seconds(5, self._poll)
    stable,         \* the exit code the status query has settled at, if any
    fs,             \* the files _state_icon_path sees: icon assets and cache
    resolved,       \* the latest _state_icon_path call and what it returned
    last_read       \* the reads of the latest load_app_config, and whether
                    \* the settings dialog changed the config since

vars == <<state, status_label, icon, sens, config, store, threads, idleq,
          uistack, next_id, cb_runs, quit, blocking, cb_depth, last_apply,
          followup, last_poll, cl_rc, cl_state, startup, timer, stable, fs,
          resolved, last_read>>

ui_vars == <<state, status_label, icon, sens>>

\* the icon files and the records of the latest resolver and config calls
io_vars == <<fs, resolved, last_read>>

(***************************************************************************)
(* Bounds of the model.                                                    *)
(***************************************************************************)
\* run_async invocations issued in one run
MaxInv == 3
\* modal dialogs the user may have open at once
MaxDepth == 1
\* exit codes fed to the classifier check: -MaxRc .. MaxRc
MaxRc == 64
\* run_async invocations issued in one run under fair scheduling
MaxLive == 2
\* calls of _state_icon_path in one run of the resolver
MaxCalls == 3
\* ticks of the timer beside the Start commands under fair scheduling
MaxTicks == 1

(***************************************************************************)
(* ProcessState (enum with label, dot and icon name).                      *)
(***************************************************************************)
ProcessState == {"INITIAL", "RUNNING", "STOPPED_PARTIALLY", "STOPPED", "ERROR"}

label(s) ==
    CASE s = "INITIAL"           -> "initial"
      [] s = "RUNNING"           -> "running"
      [] s = "STOPPED_PARTIALLY" -> "stopped partially"
      [] s = "STOPPED"           -> "stopped"
      [] s = "ERROR"             -> "error"

dot(s) ==
    CASE s = "INITIAL"           -> "black"
      [] s = "RUNNING"           -> "green"
      [] s = "STOPPED_PARTIALLY" -> "orange"
      [] s = "STOPPED"           -> "black"
      [] s = "ERROR"             -> "red"

icon_name(s) ==
    CASE s = "INITIAL"           -> "stopped"
      [] s = "RUNNING"           -> "running"
      [] s = "STOPPED_PARTIALLY" -> "stopped_partially"
      [] s = "STOPPED"           -> "stopped"
      [] s = "ERROR"             -> "error"

\* the transient labels set by _on_start / _on_stop / _on_restart
InProgress == {"starting", "stopping", "restarting"}

(***************************************************************************)
(* LogoStyle (enum whose values are its member names).                     *)
(***************************************************************************)
LogoStyle == {"GEAR", "COLORED_GLASSES", "COLORED_S"}

dir_name(style) ==
    CASE style = "GEAR"            -> "gear"
      [] style = "COLORED_GLASSES" -> "colored_glasses"
      [] style = "COLORED_S"       -> "colored_s"

DEFAULT_LOGO_STYLE == "COLORED_GLASSES"

(***************************************************************************)
(* Config store: ConfigHelper.read and load_app_config.                    *)
(***************************************************************************)
\* the settings load_app_config reads, each with the default it passes
Settings == {"stop_on_quit", "ephemeral_ports", "logo_style"}

Default(key) ==
    CASE key = "stop_on_quit"    -> "1"
      [] key = "ephemeral_ports" -> "1"
      [] key = "logo_style"      -> DEFAULT_LOGO_STYLE

\* documents the store may hold: no setting written yet, or both switched
\* off in the settings dialog ("null": the key is absent)
NoSettings == [exists |-> TRUE, stop_on_quit |-> "null",
               ephemeral_ports |-> "null", logo_style |-> "null"]

Documents == {NoSettings, [NoSettings EXCEPT !.stop_on_quit = "0",
                                             !.ephemeral_ports = "0"]}

\* what 'yq e query CONFIG_PATH' does when the tool runs: it prints the
\* stored value (exists: os.path.exists(CONFIG_PATH) at the call)
yq(st, key) ==
    [exists |-> st.exists, kind |-> "exit", returncode |-> 0, stdout |-> st[key]]

\* the reads of one load_app_config while the tool works
yq_reads(st) == [key \in Settings |-> yq(st, key)]

\* ConfigHelper.read: r is what the run of yq did
read(r, default) ==
    IF ~r.exists THEN default
    ELSE IF r.kind # "exit" THEN default          \* except Exception
    ELSE IF r.stdout = "null" \/ r.returncode # 0 THEN default ELSE r.stdout

\* str.upper() on the texts a stored logo style is drawn from
upper(text) ==
    CASE text = "gear" -> "GEAR"
      [] text = "neon" -> "NEON"
      [] OTHER         -> text

\* load_app_config without the membership test of the stored logo style
load_app_config_unvalidated(rs) ==
    [stop_on_quit    |-> read(rs.stop_on_quit, "1") = "1",
     ephemeral_ports |-> read(rs.ephemeral_ports, "1") = "1",
     logo_style      |-> upper(read(rs.logo_style, DEFAULT_LOGO_STYLE))]

\* load_app_config: rs holds what the run of yq did for each setting
load_app_config(rs) ==
    LET stored == read(rs.logo_style, DEFAULT_LOGO_STYLE)
        logo_style_raw == IF upper(stored) \notin LogoStyle
                          THEN DEFAULT_LOGO_STYLE ELSE stored
    IN  [stop_on_quit    |-> read(rs.stop_on_quit, "1") = "1",
         ephemeral_ports |-> read(rs.ephemeral_ports, "1") = "1",
         logo_style      |-> upper(logo_style_raw)]

\* what one load_app_config read (preview: the settings dialog has set the
\* logo style of the in-memory config since)
Loaded(rs) == [reads |-> rs, preview |-> FALSE]

(***************************************************************************)
(* Icon resolution: _state_icon_path.                                      *)
(***************************************************************************)
\* icon names the resolver is asked for
IconNames == {"stopped", "running"}

Variants == {"dark", "light"}

\* the vector assets of one style, for the given theme variants
Assets(styles, variants) ==
    {<<dir_name(style), variant, name>> :
        style \in styles, variant \in variants, name \in IconNames}

\* the complete icon directory and an empty raster cache
Installed == [icons_dir |-> TRUE, svgs |-> Assets(LogoStyle, Variants),
              pngs |-> {}]

\* ICON_PATH, the global fallback icon
ICON_PATH == <<"ICON_PATH">>

\* the call did not return: an exception left _state_icon_path
Raised == <<"raised">>

\* the raster file f'{style_name}_{state_name}_{variant}.png' of the cache
png(style_name, state_name, variant) == <<style_name, state_name, variant>>

NoIcon == [calls |-> 0, key |-> <<>>, path |-> <<>>, converted |-> FALSE,
           cached |-> FALSE, makedirs_ok |-> TRUE, convert_ok |-> TRUE,
           prev |-> [key |-> <<>>, path |-> <<>>]]

\* a resolver that converts the vector asset on every call
state_icon_path_converting(f, state_name, logo_style, dark, makedirs_ok, convert_ok) ==
    IF ~f.icons_dir
    THEN [path |-> ICON_PATH, pngs |-> f.pngs, converted |-> FALSE]
    ELSE
    LET variant == IF dark THEN "light" ELSE "dark"
        style == IF logo_style # "None" THEN logo_style ELSE DEFAULT_LOGO_STYLE
        own == <<dir_name(style), variant, state_name>> \in f.svgs
        style_name == IF own THEN dir_name(style)
                      ELSE dir_name(DEFAULT_LOGO_STYLE)
        file == png(style_name, state_name, variant)
    IN  IF <<style_name, variant, state_name>> \notin f.svgs
        THEN [path |-> ICON_PATH, pngs |-> f.pngs, converted |-> FALSE]
        ELSE IF ~makedirs_ok
        THEN [path |-> Raised, pngs |-> f.pngs, converted |-> FALSE]
        ELSE IF convert_ok
        THEN [path |-> file, pngs |-> f.pngs \cup {file}, converted |-> TRUE]
        ELSE [path |-> ICON_PATH, pngs |-> f.pngs, converted |-> TRUE]

\* a resolver that names the raster after the style that was asked for
state_icon_path_keyed_by_request(f, state_name, logo_style, dark, makedirs_ok, convert_ok) ==
    IF ~f.icons_dir
    THEN [path |-> ICON_PATH, pngs |-> f.pngs, converted |-> FALSE]
    ELSE
    LET variant == IF dark THEN "light" ELSE "dark"
        style == IF logo_style # "None" THEN logo_style ELSE DEFAULT_LOGO_STYLE
        own == <<dir_name(style), variant, state_name>> \in f.svgs
        style_name == IF own THEN dir_name(style)
                      ELSE dir_name(DEFAULT_LOGO_STYLE)
        file == png(dir_name(style), state_name, variant)
    IN  IF <<style_name, variant, state_name>> \notin f.svgs
        THEN [path |-> ICON_PATH, pngs |-> f.pngs, converted |-> FALSE]
        ELSE IF ~makedirs_ok
        THEN [path |-> Raised, pngs |-> f.pngs, converted |-> FALSE]
        ELSE IF file \in f.pngs
        THEN [path |-> file, pngs |-> f.pngs, converted |-> FALSE]
        ELSE IF convert_ok
        THEN [path |-> file, pngs |-> f.pngs \cup {file}, converted |-> TRUE]
        ELSE [path |-> ICON_PATH, pngs |-> f.pngs, converted |-> TRUE]

\* _state_icon_path(state_name, logo_style) on the files f.  dark: what
\* _is_dark_theme() answers at this call; makedirs_ok: os.makedirs of the
\* cache directory succeeds; convert_ok: the pixbuf load and save succeed.
\* Yields the value returned (Raised: none), the rasters in the cache after
\* the call, and whether the conversion was invoked.
state_icon_path(f, state_name, logo_style, dark, makedirs_ok, convert_ok) ==
    IF ~f.icons_dir
    THEN [path |-> ICON_PATH, pngs |-> f.pngs, converted |-> FALSE]
    ELSE
    LET variant == IF dark THEN "light" ELSE "dark"
        style == IF logo_style # "None" THEN logo_style ELSE DEFAULT_LOGO_STYLE
        own == <<dir_name(style), variant, state_name>> \in f.svgs
        style_name == IF own THEN dir_name(style)
                      ELSE dir_name(DEFAULT_LOGO_STYLE)
        file == png(style_name, state_name, variant)
    IN  IF <<style_name, variant, state_name>> \notin f.svgs
        THEN [path |-> ICON_PATH, pngs |-> f.pngs, converted |-> FALSE]
        ELSE IF ~makedirs_ok
        THEN [path |-> Raised, pngs |-> f.pngs, converted |-> FALSE]
        ELSE IF file \in f.pngs
        THEN [path |-> file, pngs |-> f.pngs, converted |-> FALSE]
        ELSE IF convert_ok
        THEN [path |-> file, pngs |-> f.pngs \cup {file}, converted |-> TRUE]
        ELSE [path |-> ICON_PATH, pngs |-> f.pngs, converted |-> TRUE]

(***************************************************************************)
(* run_cmd: what subprocess.run can do, and what run_cmd returns for it.   *)
(***************************************************************************)
ExitCodes == {0, 1, 2, 3}
Stdouts == {"", "no default connection found"}
Stderrs == {"", "no default connection found"}

Outcomes ==
    [kind : {"exit"}, returncode : ExitCodes, stdout : Stdouts, stderr : Stderrs]
    \cup {[kind |-> "timeout", returncode |-> 0, stdout |-> "", stderr |-> ""],
          [kind |-> "exception", returncode |-> 0, stdout |-> "", stderr |-> ""]}

\* a run_cmd that reports a timeout with the exit code of timeout(1)
run_cmd_timeout_124(o) ==
    CASE o.kind = "timeout"   -> [out |-> "Command timed out", rc |-> 124]
      [] o.kind = "exception" -> [out |-> "str(exc)", rc |-> 1]
      [] OTHER -> [out |-> IF o.stdout # "" THEN o.stdout ELSE o.stderr,
                   rc  |-> o.returncode]

\* a run_cmd without the "except Exception" clause: the caller gets no pair
run_cmd_uncaught(o) ==
    CASE o.kind = "timeout"   -> [out |-> "Command timed out", rc |-> 1]
      [] o.kind = "exception" -> [out |-> "raised", rc |-> -1]
      [] OTHER -> [out |-> IF o.stdout # "" THEN o.stdout ELSE o.stderr,
                   rc  |-> o.returncode]

\* run_cmd returns the pair (out, rc)
run_cmd(o) ==
    CASE o.kind = "timeout"   -> [out |-> "Command timed out", rc |-> 1]
      [] o.kind = "exception" -> [out |-> "str(exc)", rc |-> 1]
      [] OTHER -> [out |-> IF o.stdout # "" THEN o.stdout ELSE o.stderr,
                   rc  |-> o.returncode]

(***************************************************************************)
(* _rc_to_state                                                            *)
(***************************************************************************)
\* a classifier whose default is STOPPED instead of ERROR
rc_to_state_default_stopped(rc) ==
    CASE rc = 0 -> "RUNNING"
      [] rc = 2 -> "STOPPED_PARTIALLY"
      [] OTHER  -> "STOPPED"

\* a classifier that has no state for exit code 1
rc_to_state_one_initial(rc) ==
    CASE rc = 0 -> "RUNNING"
      [] rc = 1 -> "INITIAL"
      [] rc = 2 -> "STOPPED_PARTIALLY"
      [] rc = 3 -> "STOPPED"
      [] OTHER  -> "ERROR"

rc_to_state(rc) ==
    CASE rc = 0 -> "RUNNING"
      [] rc = 2 -> "STOPPED_PARTIALLY"
      [] rc = 3 -> "STOPPED"
      [] OTHER  -> "ERROR"

(***************************************************************************)
(* History records (not program state: they name what a handler did).      *)
(***************************************************************************)
\* arg: the state passed to the latest _apply_state call; updated: the call
\* updated the UI; again: the call right before it passed the same state
\* ("updated" / "noop": what that call did) or not ("no")
\* icon_failed: _update_tray_icon swallowed an exception during the call
NoApply == [arg |-> "none", again |-> "no", updated |-> FALSE,
            icon_failed |-> FALSE]

Again(new_state) ==
    IF last_apply.arg # new_state THEN "no"
    ELSE IF last_apply.updated THEN "updated" ELSE "noop"

\* frames of uistack that are callbacks of the main loop (idle or timer)
CallbackFrames == {"startup_check", "after_proxy_cmd", "rm_done", "add_done",
                   "add_confirm"}

Executing == Cardinality({i \in 1..Len(uistack) : uistack[i] \in CallbackFrames})

\* a callback of the main loop starts
callback == cb_depth' = Executing

\* a menu handler starts
handler == UNCHANGED cb_depth

NoFollowup == [id |-> 0, rc |-> -1, delivered |-> FALSE, pre |-> FALSE]

\* runs: executions of _startup_check; welcomes: welcome dialogs shown
NoStartup == [runs |-> 0, welcomes |-> 0]

\* the latest handler on the UI thread called run_cmd itself: the command
\* and, where the handler branches on it, the pair returned
NoCall == [args |-> "none", out |-> "", rc |-> 0]

\* armed: the timeout source is installed; ticks: times it has fired
Armed == [armed |-> TRUE, ticks |-> 0]

\* the status query has not settled at one exit code
NoRc == -1

Polls(ths) == {t \in ths : t.args = "ps"}

(***************************************************************************)
(* Init: the state after SusOpsApp.__init__ (menu built, indicator set up, *)
(* _startup_check attached as an idle source, the 5 s timer armed).        *)
(***************************************************************************)
\* rs: what yq did for the reads of the load_app_config of __init__
InitOf(document, rc, rs, files) ==
    /\ state = "INITIAL"
    /\ status_label = <<dot("INITIAL"), "checking">>
    /\ icon = icon_name("STOPPED")
    /\ sens = [start |-> TRUE, stop |-> TRUE, restart |-> TRUE,
               test_any |-> TRUE, test_all |-> TRUE]
    /\ store = document
    /\ config = load_app_config(rs)
    /\ threads = {}
    /\ idleq = <<[id |-> 0, cb |-> "startup_check", args |-> "", out |-> "",
                 rc |-> 0, kind |-> "exit"]>>
    /\ uistack = <<>>
    /\ next_id = 1
    /\ cb_runs = <<>>
    /\ quit = FALSE
    /\ blocking = NoCall
    /\ cb_depth = 0
    /\ last_apply = NoApply
    /\ followup = NoFollowup
    /\ last_poll = 0
    /\ cl_rc = rc
    /\ cl_state = "none"
    /\ startup = NoStartup
    /\ timer = Armed
    /\ stable = NoRc
    /\ fs = files
    /\ resolved = NoIcon
    /\ last_read = Loaded(rs)

\* a start with a working yq and the complete icon directory
InitWith(document, rc) == InitOf(document, rc, yq_reads(document), Installed)

\* first start: nothing has been written to the store yet
Init == InitWith(NoSettings, 0)

\* a start with either document
InitAny == \E document \in Documents : InitWith(document, 0)

(***************************************************************************)
(* run_async, _poll and the idle hand-off.                                 *)
(***************************************************************************)
\* invocations whose callback will itself issue a status poll
Reserved ==
    Cardinality({t \in threads : t.cb \in {"after_proxy_cmd", "reset_done"}})
    + Cardinality({i \in 1..Len(idleq) :
                     idleq[i].cb \in {"after_proxy_cmd", "reset_done"}})

\* room for n more invocations (and the polls their callbacks issue)
Room(n) == next_id + Reserved + n - 1 <= MaxInv

\* the main loop runs and its first iteration has dispatched _startup_check,
\* the idle source attached before Gtk.main() was entered
MainLoop ==
    /\ ~quit
    /\ \A i \in 1..Len(idleq) : idleq[i].cb # "startup_check"

\* run_async: start a worker thread that runs run_cmd(args) and then
\* hands callback(out, rc) to the main loop with GLib.idle_add
run_async(args, cb) ==
    /\ threads' = threads \cup {[id |-> next_id, args |-> args, cb |-> cb]}
    /\ next_id' = next_id + 1
    /\ last_poll' = IF args = "ps" THEN next_id ELSE last_poll

no_async == UNCHANGED <<threads, next_id, last_poll>>

\* self.config = ConfigHelper.load_app_config()
load(rs) ==
    /\ config' = load_app_config(rs)
    /\ last_read' = Loaded(rs)

\* _poll: run_async('ps', self._on_poll_result, timeout=10); return True
poll == run_async("ps", "on_poll_result")

\* executions of callbacks: the callback of invocation id ran (0: none),
\* and a new invocation starts with no execution
Runs(id) ==
    LET r == IF id = 0 THEN cb_runs ELSE [cb_runs EXCEPT ![id] = @ + 1]
    IN  cb_runs' = IF next_id' > next_id THEN Append(r, 0) ELSE r

\* GLib converts the callback's return value with PyObject_IsTrue: None and
\* False remove the idle source, everything else keeps it installed
Truthy(ret) ==
    CASE ret = "None"   -> FALSE
      [] ret = "False"  -> FALSE
      [] ret = "True"   -> TRUE
      [] ret = "tuple2" -> TRUE   \* a non-empty tuple

\* the main loop dispatches the first idle source; it stays installed (and
\* is dispatched again) when its callback returned a true value
Dispatched(ret) ==
    idleq' = IF Truthy(ret) THEN Append(Tail(idleq), Head(idleq)) ELSE Tail(idleq)

\* the idle source GLib.idle_add(callback, out, rc) attaches; an argument
\* the callback never reads, or only shows as the text of a dialog, is not
\* kept; kind names how the subprocess call ended (not program state)
idle_source(t, o) ==
    LET r == run_cmd(o)
    IN  [id   |-> t.id, cb |-> t.cb, args |-> t.args,
         out  |-> IF t.cb = "after_proxy_cmd" THEN r.out ELSE "",
         rc   |-> IF t.cb = "reset_done" THEN 0 ELSE r.rc,
         kind |-> IF t.cb \in {"on_poll_result", "after_proxy_cmd"}
                  THEN o.kind ELSE "exit"]

\* a worker that ends without a hand-off when the command cannot be launched
worker_dropping(t, o) ==
    /\ ~quit
    /\ t \in threads
    /\ threads' = threads \ {t}
    /\ idleq' = IF o.kind = "exception" THEN idleq
                ELSE Append(idleq, idle_source(t, o))
    /\ UNCHANGED <<ui_vars, config, store, uistack, next_id, cb_runs, quit,
                   blocking, cb_depth, last_apply, followup, last_poll, cl_rc,
                   cl_state, startup, timer, stable, io_vars>>

\* a worker that attaches its idle source before the pending ones
worker_lifo(t, o) ==
    /\ ~quit
    /\ t \in threads
    /\ threads' = threads \ {t}
    /\ idleq' = <<idle_source(t, o)>> \o idleq
    /\ UNCHANGED <<ui_vars, config, store, uistack, next_id, cb_runs, quit,
                   blocking, cb_depth, last_apply, followup, last_poll, cl_rc,
                   cl_state, startup, timer, stable, io_vars>>

\* a worker that writes the controller state itself before the hand-off
worker_writing_state(t, o) ==
    /\ ~quit
    /\ t \in threads
    /\ threads' = threads \ {t}
    /\ idleq' = Append(idleq, idle_source(t, o))
    /\ state' = IF t.args = "ps" THEN rc_to_state(run_cmd(o).rc) ELSE state
    /\ UNCHANGED <<status_label, icon, sens, config, store, uistack, next_id,
                   cb_runs, quit, blocking, cb_depth, last_apply, followup,
                   last_poll, cl_rc, cl_state, startup, timer, stable,
                   io_vars>>

\* the worker of run_async: out, rc = run_cmd(...); GLib.idle_add(callback, out, rc)
worker(t, o) ==
    /\ ~quit
    /\ t \in threads
    /\ threads' = threads \ {t}
    /\ idleq' = Append(idleq, idle_source(t, o))
    /\ UNCHANGED <<ui_vars, config, store, uistack, next_id, cb_runs, quit,
                   blocking, cb_depth, last_apply, followup, last_poll, cl_rc,
                   cl_state, startup, timer, stable, io_vars>>

(***************************************************************************)
(* _update_tray_icon and _apply_state.                                     *)
(***************************************************************************)
\* the icon after _update_tray_icon(s): the state's icon, or the global
\* fallback icon when the state's icon file is missing; the old icon when
\* the update raised (the exception is swallowed: except Exception: pass)
update_tray_icon(s, found, failed) ==
    IF failed THEN icon ELSE IF found THEN icon_name(s) ELSE "fallback"

\* the icon cache holds the icon of every state
IconFound == {TRUE}

\* the sensitivity _apply_state sets for a state
Sensitivity(s) ==
    [start    |-> s # "RUNNING" /\ s # "ERROR",
     stop     |-> s \in {"RUNNING", "STOPPED_PARTIALLY"},
     restart  |-> s \in {"RUNNING", "STOPPED_PARTIALLY"},
     test_any |-> s \in {"RUNNING", "STOPPED_PARTIALLY"},
     test_all |-> s \in {"RUNNING", "STOPPED_PARTIALLY"}]

\* _apply_state without the early return for an unchanged state
apply_state_always(new_state) ==
    /\ status_label' = <<dot(new_state), label(new_state)>>
    /\ sens' = Sensitivity(new_state)
    /\ state' = new_state
    /\ \E failed \in BOOLEAN :
          /\ \E found \in IconFound :
                icon' = update_tray_icon(new_state, found, failed)
          /\ last_apply' = [arg |-> new_state, again |-> Again(new_state),
                            updated |-> TRUE, icon_failed |-> failed]

\* _apply_state that leaves Start enabled in state ERROR
apply_state_start_on_error(new_state) ==
    IF new_state = state
    THEN /\ UNCHANGED ui_vars
         /\ last_apply' = [arg |-> new_state, again |-> Again(new_state),
                           updated |-> FALSE, icon_failed |-> FALSE]
    ELSE /\ status_label' = <<dot(new_state), label(new_state)>>
         /\ sens' = [Sensitivity(new_state) EXCEPT !.start = new_state # "RUNNING"]
         /\ state' = new_state
         /\ \E failed \in BOOLEAN :
               /\ \E found \in IconFound :
                     icon' = update_tray_icon(new_state, found, failed)
               /\ last_apply' = [arg |-> new_state, again |-> Again(new_state),
                                 updated |-> TRUE, icon_failed |-> failed]

\* _apply_state with an _update_tray_icon that lets the exception out: the
\* label is set, sensitivity and state are not
apply_state_icon_raises(new_state) ==
    IF new_state = state
    THEN /\ UNCHANGED ui_vars
         /\ last_apply' = [arg |-> new_state, again |-> Again(new_state),
                           updated |-> FALSE, icon_failed |-> FALSE]
    ELSE /\ status_label' = <<dot(new_state), label(new_state)>>
         /\ \E failed \in BOOLEAN :
               /\ \E found \in IconFound :
                     icon' = update_tray_icon(new_state, found, failed)
               /\ sens' = IF failed THEN sens ELSE Sensitivity(new_state)
               /\ state' = IF failed THEN state ELSE new_state
               /\ last_apply' = [arg |-> new_state, again |-> Again(new_state),
                                 updated |-> TRUE, icon_failed |-> failed]

apply_state(new_state) ==
    IF new_state = state
    THEN /\ UNCHANGED ui_vars
         /\ last_apply' = [arg |-> new_state, again |-> Again(new_state),
                           updated |-> FALSE, icon_failed |-> FALSE]
    ELSE /\ status_label' = <<dot(new_state), label(new_state)>>
         /\ sens' = Sensitivity(new_state)
         /\ state' = new_state
         /\ \E failed \in BOOLEAN :
               /\ \E found \in IconFound :
                     icon' = update_tray_icon(new_state, found, failed)
               /\ last_apply' = [arg |-> new_state, again |-> Again(new_state),
                                 updated |-> TRUE, icon_failed |-> failed]

\* the handler changes the controller without _apply_state
no_apply == last_apply' = NoApply

(***************************************************************************)
(* State management: _startup_check, _poll (timer), _on_poll_result.       *)
(***************************************************************************)
Contains(out, sig) == out = sig

\* a startup check that shows the welcome dialog for every ERROR
startup_check_any_error(o) ==
    /\ ~quit
    /\ idleq # <<>> /\ Head(idleq).cb = "startup_check"
    /\ LET r == run_cmd(o)
           new_state == rc_to_state(r.rc)
           welcome == new_state = "ERROR"
       IN  /\ apply_state(new_state)
           /\ uistack' = IF welcome THEN Append(uistack, "startup_check") ELSE uistack
           /\ startup' = [runs     |-> startup.runs + 1,
                          welcomes |-> startup.welcomes + IF welcome THEN 1 ELSE 0]
           /\ blocking' = [args |-> "ps", out |-> r.out, rc |-> r.rc]
    /\ callback
    /\ Dispatched("False")
    /\ no_async
    /\ Runs(0)
    /\ UNCHANGED <<config, store, quit, followup, cl_rc, cl_state, timer,
                   stable, io_vars>>

\* idle callback attached by __init__; runs run_cmd('ps') itself
startup_check(o) ==
    /\ ~quit
    /\ idleq # <<>> /\ Head(idleq).cb = "startup_check"
    /\ LET r == run_cmd(o)
           new_state == rc_to_state(r.rc)
           welcome == new_state = "ERROR"
                      /\ Contains(r.out, "no default connection found")
       IN  /\ apply_state(new_state)
           /\ uistack' = IF welcome THEN Append(uistack, "startup_check") ELSE uistack
           /\ startup' = [runs     |-> startup.runs + 1,
                          welcomes |-> startup.welcomes + IF welcome THEN 1 ELSE 0]
           /\ blocking' = [args |-> "ps", out |-> r.out, rc |-> r.rc]
    /\ callback
    /\ Dispatched("False")
    /\ no_async
    /\ Runs(0)
    /\ UNCHANGED <<config, store, quit, followup, cl_rc, cl_state, timer,
                   stable, io_vars>>

\* the callback of GLib.timeout_add_seconds(5, self._poll)
\* a timer source that is removed after it has fired
fired_once(ret) == timer' = [armed |-> FALSE, ticks |-> timer.ticks + 1]

\* the source fires; it stays installed when _poll returns a true value
fired(ret) == timer' = [armed |-> Truthy(ret), ticks |-> timer.ticks + 1]

\* a timer callback that issues no query while a status poll is in flight
tick_skipping ==
    /\ MainLoop
    /\ timer.armed
    /\ Room(1)
    /\ IF Polls(threads) = {} THEN poll ELSE no_async
    /\ fired("True")
    /\ Runs(0)
    /\ blocking' = NoCall
    /\ callback
    /\ UNCHANGED <<ui_vars, config, store, idleq, uistack, quit, last_apply,
                   followup, cl_rc, cl_state, startup, stable, io_vars>>

tick ==
    /\ MainLoop
    /\ timer.armed
    /\ Room(1)
    /\ poll
    /\ fired("True")
    /\ Runs(0)
    /\ blocking' = NoCall
    /\ callback
    /\ UNCHANGED <<ui_vars, config, store, idleq, uistack, quit, last_apply,
                   followup, cl_rc, cl_state, startup, stable, io_vars>>

\* a poll callback that keeps ERROR once it is reached
on_poll_result_latching ==
    /\ MainLoop
    /\ idleq # <<>> /\ Head(idleq).cb = "on_poll_result"
    /\ LET e == Head(idleq)
       IN  /\ apply_state(IF state = "ERROR" THEN "ERROR" ELSE rc_to_state(e.rc))
           /\ followup' = IF e.id = followup.id
                          THEN [followup EXCEPT !.rc = e.rc, !.delivered = TRUE]
                          ELSE followup
    /\ blocking' = NoCall
    /\ callback
    /\ Dispatched("None")
    /\ no_async
    /\ Runs(Head(idleq).id)
    /\ UNCHANGED <<config, store, uistack, quit, cl_rc, cl_state, startup,
                   timer, stable, io_vars>>

\* a poll callback that drops the result of a poll issued before the
\* latest one (results ordered by issue)
on_poll_result_by_issue ==
    /\ MainLoop
    /\ idleq # <<>> /\ Head(idleq).cb = "on_poll_result"
    /\ LET e == Head(idleq)
       IN  /\ apply_state(IF e.id < last_poll THEN state ELSE rc_to_state(e.rc))
           /\ followup' = IF e.id = followup.id
                          THEN [followup EXCEPT !.rc = e.rc, !.delivered = TRUE]
                          ELSE followup
    /\ blocking' = NoCall
    /\ callback
    /\ Dispatched("None")
    /\ no_async
    /\ Runs(Head(idleq).id)
    /\ UNCHANGED <<config, store, uistack, quit, cl_rc, cl_state, startup,
                   timer, stable, io_vars>>

on_poll_result ==
    /\ MainLoop
    /\ idleq # <<>> /\ Head(idleq).cb = "on_poll_result"
    /\ LET e == Head(idleq)
       IN  /\ apply_state(rc_to_state(e.rc))
           /\ followup' = IF e.id = followup.id
                          THEN [followup EXCEPT !.rc = e.rc, !.delivered = TRUE]
                          ELSE followup
    /\ blocking' = NoCall
    /\ callback
    /\ Dispatched("None")
    /\ no_async
    /\ Runs(Head(idleq).id)
    /\ UNCHANGED <<config, store, uistack, quit, cl_rc, cl_state, startup,
                   timer, stable, io_vars>>

(***************************************************************************)
(* Proxy controls: _on_start, _on_stop, _on_restart, _after_proxy_cmd.     *)
(***************************************************************************)
on_start ==
    /\ MainLoop
    /\ sens.start                       \* an insensitive item cannot be activated
    /\ Room(2)
    /\ sens' = [sens EXCEPT !.start = FALSE]
    /\ status_label' = <<dot("INITIAL"), "starting">>
    /\ run_async("start", "after_proxy_cmd")
    /\ Runs(0)
    /\ no_apply
    /\ blocking' = NoCall
    /\ handler
    /\ UNCHANGED <<state, icon, config, store, idleq, uistack, quit, followup,
                   cl_rc, cl_state, startup, timer, stable, io_vars>>

\* a Stop handler that enables Start at the click
on_stop_enabling_start ==
    /\ MainLoop
    /\ sens.stop
    /\ Room(2)
    /\ sens' = [sens EXCEPT !.stop = FALSE, !.start = TRUE]
    /\ status_label' = <<dot("INITIAL"), "stopping">>
    /\ run_async(IF ~config.ephemeral_ports THEN "stop --keep-ports" ELSE "stop",
                 "after_proxy_cmd")
    /\ Runs(0)
    /\ no_apply
    /\ blocking' = NoCall
    /\ handler
    /\ UNCHANGED <<state, icon, config, store, idleq, uistack, quit, followup,
                   cl_rc, cl_state, startup, timer, stable, io_vars>>

on_stop ==
    /\ MainLoop
    /\ sens.stop
    /\ Room(2)
    /\ sens' = [sens EXCEPT !.stop = FALSE]
    /\ status_label' = <<dot("INITIAL"), "stopping">>
    /\ run_async(IF ~config.ephemeral_ports THEN "stop --keep-ports" ELSE "stop",
                 "after_proxy_cmd")
    /\ Runs(0)
    /\ no_apply
    /\ blocking' = NoCall
    /\ handler
    /\ UNCHANGED <<state, icon, config, store, idleq, uistack, quit, followup,
                   cl_rc, cl_state, startup, timer, stable, io_vars>>

\* the body of _on_restart; rs: what yq does for the reads of its
\* load_app_config
restart(rs) ==
    /\ Room(2)
    /\ load(rs)
    /\ sens' = [sens EXCEPT !.restart = FALSE]
    /\ status_label' = <<dot("INITIAL"), "restarting">>
    /\ run_async("restart", "after_proxy_cmd")
    /\ Runs(0)
    /\ no_apply
    /\ UNCHANGED <<state, icon, store, idleq, quit, followup, cl_rc,
                   cl_state, startup, timer, stable, fs, resolved>>

\* _on_restart activated from the menu
on_restart ==
    /\ MainLoop
    /\ sens.restart
    /\ restart(yq_reads(store))
    /\ blocking' = NoCall
    /\ handler
    /\ UNCHANGED uistack

\* a completion callback that trusts the command: it applies the state of
\* the command's own exit code and polls again only after a failure
after_proxy_cmd_trusting ==
    /\ MainLoop
    /\ idleq # <<>> /\ Head(idleq).cb = "after_proxy_cmd"
    /\ LET e == Head(idleq)
           alert == e.rc # 0 /\ e.out # ""
       IN  /\ apply_state(rc_to_state(e.rc))
           /\ IF e.rc # 0 THEN poll ELSE no_async
           /\ uistack' = IF alert THEN Append(uistack, "after_proxy_cmd") ELSE uistack
           /\ followup' = followup
           /\ Runs(e.id)
    /\ blocking' = NoCall
    /\ callback
    /\ Dispatched("None")
    /\ UNCHANGED <<config, store, quit, cl_rc, cl_state, startup, timer,
                   stable, io_vars>>

\* a completion callback that leaves the committed state as it is
after_proxy_cmd_keeping_state ==
    /\ MainLoop
    /\ idleq # <<>> /\ Head(idleq).cb = "after_proxy_cmd"
    /\ LET e == Head(idleq)
           alert == e.rc # 0 /\ e.out # ""
       IN  /\ state' = state
           /\ poll
           /\ no_apply
           /\ uistack' = IF alert THEN Append(uistack, "after_proxy_cmd") ELSE uistack
           /\ followup' = [id |-> next_id, rc |-> -1, delivered |-> FALSE,
                           pre |-> Polls(threads) # {}
                                   \/ \E i \in 1..Len(idleq) :
                                        idleq[i].cb = "on_poll_result"]
           /\ Runs(e.id)
    /\ blocking' = NoCall
    /\ callback
    /\ Dispatched("None")
    /\ UNCHANGED <<status_label, icon, sens, config, store, quit, cl_rc,
                   cl_state, startup, timer, stable, io_vars>>

\* completion callback of start / stop / restart
after_proxy_cmd ==
    /\ MainLoop
    /\ idleq # <<>> /\ Head(idleq).cb = "after_proxy_cmd"
    /\ LET e == Head(idleq)
           alert == e.rc # 0 /\ e.out # ""
       IN  /\ state' = "INITIAL"
           /\ poll
           /\ no_apply
           /\ uistack' = IF alert THEN Append(uistack, "after_proxy_cmd") ELSE uistack
           /\ followup' = [id |-> next_id, rc |-> -1, delivered |-> FALSE,
                           pre |-> Polls(threads) # {}
                                   \/ \E i \in 1..Len(idleq) :
                                        idleq[i].cb = "on_poll_result"]
           /\ Runs(e.id)
    /\ blocking' = NoCall
    /\ callback
    /\ Dispatched("None")
    /\ UNCHANGED <<status_label, icon, sens, config, store, quit, cl_rc,
                   cl_state, startup, timer, stable, io_vars>>

(***************************************************************************)
(* Modal dialogs: _alert / _confirm / dialog.run() run a nested main loop, *)
(* so the frame stays on uistack while the loop dispatches other sources.  *)
(***************************************************************************)
Top == uistack[Len(uistack)]

Pop == SubSeq(uistack, 1, Len(uistack) - 1)

\* the user closes the message dialog a callback is blocked in
close_alert ==
    /\ MainLoop
    /\ uistack # <<>>
    /\ Top \in {"startup_check", "after_proxy_cmd", "rm_done",
               "rm_nothing_selected", "settings_saved", "invalid_port",
               "add_done", "add_invalid"}
    /\ uistack' = Pop
    /\ UNCHANGED <<ui_vars, config, store, threads, idleq, next_id, cb_runs,
                   quit, blocking, cb_depth, last_apply, followup, last_poll,
                   cl_rc, cl_state, startup, timer, stable, io_vars>>

(***************************************************************************)
(* Reset: _on_reset and the callback it passes to run_async.               *)
(***************************************************************************)
\* _on_reset up to the _confirm dialog
on_reset ==
    /\ MainLoop
    /\ Len(uistack) < MaxDepth
    /\ uistack' = Append(uistack, "on_reset")
    /\ blocking' = NoCall
    /\ handler
    /\ UNCHANGED <<ui_vars, config, store, threads, idleq, next_id, cb_runs,
                   quit, last_apply, followup, last_poll, cl_rc, cl_state,
                   startup, timer, stable, io_vars>>

\* _on_reset from the answer of _confirm on
on_reset_response(ok) ==
    /\ MainLoop
    /\ uistack # <<>> /\ Top = "on_reset"
    /\ ok => Room(2)
    /\ uistack' = Pop
    /\ IF ok THEN run_async("reset --force", "reset_done") ELSE no_async
    /\ Runs(0)
    /\ UNCHANGED <<ui_vars, config, store, idleq, quit, blocking, cb_depth,
                   last_apply, followup, cl_rc, cl_state, startup, timer,
                   stable, io_vars>>

\* lambda out, rc: (self.config.update(ConfigHelper.load_app_config()), self._poll())
\* the lambda returns the pair (None, True)
reset_done ==
    /\ MainLoop
    /\ idleq # <<>> /\ Head(idleq).cb = "reset_done"
    /\ next_id <= MaxInv
    /\ load(yq_reads(store))
    /\ poll
    /\ Runs(Head(idleq).id)
    /\ blocking' = NoCall
    /\ callback
    /\ Dispatched("tuple2")
    /\ UNCHANGED <<ui_vars, store, uistack, quit, last_apply, followup, cl_rc,
                   cl_state, startup, timer, stable, fs,
                   resolved>>

(***************************************************************************)
(* Remove dialogs: _RemoveDialog.run and _RemoveDialog._on_done.           *)
(***************************************************************************)
\* _on_rm_*: the dialog is shown (super().run())
on_rm ==
    /\ MainLoop
    /\ Len(uistack) < MaxDepth
    /\ uistack' = Append(uistack, "rm_dialog")
    /\ blocking' = NoCall
    /\ handler
    /\ UNCHANGED <<ui_vars, config, store, threads, idleq, next_id, cb_runs,
                   quit, last_apply, followup, last_poll, cl_rc, cl_state,
                   startup, timer, stable, io_vars>>

\* one round of the loop of _RemoveDialog.run
rm_response(resp) ==
    /\ MainLoop
    /\ uistack # <<>> /\ Top = "rm_dialog"
    /\ resp = "ok" => Room(1)
    /\ CASE resp = "cancel"   -> uistack' = Pop /\ no_async
         [] resp = "ok_empty" -> uistack' = Append(uistack, "rm_nothing_selected")
                                 /\ no_async
         [] resp = "ok"       -> uistack' = Pop /\ run_async("rm", "rm_done")
    /\ Runs(0)
    /\ UNCHANGED <<ui_vars, config, store, idleq, quit, blocking, cb_depth,
                   last_apply, followup, cl_rc, cl_state, startup, timer,
                   stable, io_vars>>

\* _RemoveDialog._on_done: an _alert in both branches
rm_done ==
    /\ MainLoop
    /\ idleq # <<>> /\ Head(idleq).cb = "rm_done"
    /\ uistack' = Append(uistack, "rm_done")
    /\ blocking' = NoCall
    /\ callback
    /\ Dispatched("None")
    /\ no_async
    /\ Runs(Head(idleq).id)
    /\ UNCHANGED <<ui_vars, config, store, quit, last_apply, followup, cl_rc,
                   cl_state, startup, timer, stable, io_vars>>

(***************************************************************************)
(* Handlers that call run_cmd themselves: List All, status, Test, Quit.    *)
(***************************************************************************)
\* a status handler that also commits what it takes the status to be
sync_handler_applying(args) ==
    /\ MainLoop
    /\ blocking' = [NoCall EXCEPT !.args = args]
    /\ handler
    /\ state' = IF args = "ps" THEN "STOPPED" ELSE state
    /\ UNCHANGED <<status_label, icon, sens, config, store, threads, idleq,
                   uistack, next_id, cb_runs, quit, last_apply, followup,
                   last_poll, cl_rc, cl_state, startup, timer, stable, io_vars>>

\* a menu handler that calls run_cmd(args) and shows the text (non-modal)
sync_handler(args) ==
    /\ MainLoop
    /\ blocking' = [NoCall EXCEPT !.args = args]
    /\ handler
    /\ UNCHANGED <<ui_vars, config, store, threads, idleq, uistack, next_id,
                   cb_runs, quit, last_apply, followup, last_poll, cl_rc,
                   cl_state, startup, timer, stable, io_vars>>

on_list_all == sync_handler("ls")

on_check_status == sync_handler("ps")

on_test_all == sens.test_all /\ sync_handler("test --all")

\* _on_quit that stops the proxy whatever the config says
on_quit_always_stopping(o) ==
    /\ MainLoop
    /\ quit' = TRUE
    /\ blocking' = IF TRUE
                   THEN [args |-> "stop --keep-ports", out |-> run_cmd(o).out,
                         rc |-> run_cmd(o).rc]
                   ELSE NoCall
    /\ handler
    /\ threads' = {}
    /\ idleq' = <<>>
    /\ uistack' = <<>>
    /\ timer' = [timer EXCEPT !.armed = FALSE]
    /\ UNCHANGED <<ui_vars, config, store, next_id, cb_runs, last_apply,
                   followup, last_poll, cl_rc, cl_state, startup, stable,
                   io_vars>>

\* _on_quit: run_cmd('stop --keep-ports', timeout=15) on the UI thread when
\* the config says so (o: how that call ends), then Gtk.main_quit(), with
\* which main() returns and the process ends, and with it its daemon worker
\* threads and pending idle sources
on_quit(o) ==
    /\ MainLoop
    /\ quit' = TRUE
    /\ blocking' = IF config.stop_on_quit
                   THEN [args |-> "stop --keep-ports", out |-> run_cmd(o).out,
                         rc |-> run_cmd(o).rc]
                   ELSE NoCall
    /\ handler
    /\ threads' = {}
    /\ idleq' = <<>>
    /\ uistack' = <<>>
    /\ timer' = [timer EXCEPT !.armed = FALSE]
    /\ UNCHANGED <<ui_vars, config, store, next_id, cb_runs, last_apply,
                   followup, last_poll, cl_rc, cl_state, startup, stable,
                   io_vars>>

(***************************************************************************)
(* _show_restart_if_running: an _alert, or a _confirm that restarts.       *)
(***************************************************************************)
\* _show_restart_if_running without the test of the state
show_restart_always(who) ==
    IF who = "settings" THEN "settings_confirm" ELSE "add_confirm"

\* the dialog _show_restart_if_running opens for the caller who
show_restart_if_running(who) ==
    IF state \in {"RUNNING", "STOPPED_PARTIALLY"}
    THEN IF who = "settings" THEN "settings_confirm" ELSE "add_confirm"
    ELSE IF who = "settings" THEN "settings_saved" ELSE "add_done"

\* the answer to 'Restart proxy to apply?': _on_restart(None), or the _alert
restart_response(ok) ==
    /\ MainLoop
    /\ uistack # <<>> /\ Top \in {"settings_confirm", "add_confirm"}
    /\ IF ok
       THEN /\ restart(yq_reads(store))
            /\ uistack' = Pop
       ELSE /\ uistack' = Append(Pop, IF Top = "settings_confirm"
                                      THEN "settings_saved" ELSE "add_done")
            /\ no_async
            /\ Runs(0)
            /\ UNCHANGED <<ui_vars, config, store, idleq, quit, last_apply,
                           followup, cl_rc, cl_state, startup, timer, stable,
                           io_vars>>
    /\ UNCHANGED <<blocking, cb_depth>>

(***************************************************************************)
(* Settings: _on_settings, SettingsDialog.run and the live preview.        *)
(***************************************************************************)
\* documents a start may find: none, or one with any text as logo style
StoredDocuments ==
    {[NoSettings EXCEPT !.exists = FALSE]}
    \cup {[NoSettings EXCEPT !.logo_style = text] :
             text \in {"null", "gear", "COLORED_S", "neon", ""}}

\* runs of yq that fail: it cannot be started or times out (an exception),
\* or it exits with a non-zero code
FailedRuns ==
    {[exists |-> TRUE, kind |-> "exception", returncode |-> 0, stdout |-> ""],
     [exists |-> TRUE, kind |-> "exit", returncode |-> 1, stdout |-> "0"]}

\* what yq may do for the reads of one load_app_config: it works for all
\* of them, fails for all of them in the same way, or fails for one
ReadOutcomes(st) ==
    {yq_reads(st)}
    \cup IF ~st.exists THEN {}
         ELSE {[key \in Settings |-> run] : run \in FailedRuns}
              \cup {[yq_reads(st) EXCEPT ![key] = run] :
                       key \in Settings, run \in FailedRuns}

\* _on_settings up to the dialog (super().run() in SettingsDialog.run)
on_settings(rs) ==
    /\ MainLoop
    /\ Len(uistack) < MaxDepth
    /\ load(rs)
    /\ uistack' = Append(uistack, "settings")
    /\ blocking' = NoCall
    /\ handler
    /\ UNCHANGED <<ui_vars, store, threads, idleq, next_id, cb_runs, quit,
                   last_apply, followup, last_poll, cl_rc, cl_state, startup,
                   timer, stable, fs, resolved>>

\* SettingsDialog._on_logo_style_changed: the live preview
on_logo_style_changed(style_id) ==
    /\ MainLoop
    /\ uistack # <<>> /\ Top = "settings"
    /\ IF style_id # "None" /\ style_id \in LogoStyle
       THEN /\ config' = [config EXCEPT !.logo_style = style_id]
            /\ last_read' = [last_read EXCEPT !.preview = TRUE]
            /\ \E failed \in BOOLEAN, found \in IconFound :
                  icon' = update_tray_icon(state, found, failed)
       ELSE UNCHANGED <<config, last_read, icon>>
    /\ UNCHANGED <<state, status_label, sens, store, threads, idleq, uistack,
                   next_id, cb_runs, quit, blocking, cb_depth, last_apply,
                   followup, last_poll, cl_rc, cl_state, startup, timer,
                   stable, fs, resolved>>

\* SettingsDialog.run whose cancel branch hides the dialog without
\* reloading the config
settings_response_keeping_preview(resp, rs, written, doc) ==
    /\ MainLoop
    /\ uistack # <<>> /\ Top = "settings"
    /\ CASE resp = "cancel" ->
              /\ uistack' = Pop
              /\ UNCHANGED <<config, last_read, icon, store>>
         [] resp = "ok_invalid_port" ->
              /\ uistack' = Append(uistack, "invalid_port")
              /\ UNCHANGED <<config, last_read, icon, store>>
         [] resp = "ok" ->
              /\ store' = IF written THEN doc ELSE store
              /\ load(rs)
              /\ uistack' = Append(Pop, show_restart_if_running("settings"))
              /\ UNCHANGED icon
    /\ UNCHANGED <<state, status_label, sens, threads, idleq, next_id, cb_runs,
                   quit, blocking, cb_depth, last_apply, followup, last_poll,
                   cl_rc, cl_state, startup, timer, stable, fs, resolved>>

\* one round of the loop of SettingsDialog.run and, after a save, the rest
\* of _on_settings.  written: the four ConfigHelper.write calls succeed;
\* doc: the values of the switches and of the combo box
settings_response(resp, rs, written, doc) ==
    /\ MainLoop
    /\ uistack # <<>> /\ Top = "settings"
    /\ CASE resp = "cancel" ->
              /\ load(rs)
              /\ \E failed \in BOOLEAN, found \in IconFound :
                    icon' = update_tray_icon(state, found, failed)
              /\ uistack' = Pop
              /\ UNCHANGED store
         [] resp = "ok_invalid_port" ->
              /\ uistack' = Append(uistack, "invalid_port")
              /\ UNCHANGED <<config, last_read, icon, store>>
         [] resp = "ok" ->
              /\ store' = IF written THEN doc ELSE store
              /\ load(rs)
              /\ uistack' = Append(Pop, show_restart_if_running("settings"))
              /\ UNCHANGED icon
    /\ UNCHANGED <<state, status_label, sens, threads, idleq, next_id, cb_runs,
                   quit, blocking, cb_depth, last_apply, followup, last_poll,
                   cl_rc, cl_state, startup, timer, stable, fs, resolved>>

\* the documents SettingsDialog.run writes: both switches on or both off,
\* and the logo style of the combo box
Saved ==
    {[exists |-> TRUE, stop_on_quit |-> switch, ephemeral_ports |-> switch,
      logo_style |-> style_id] : switch \in {"0", "1"}, style_id \in LogoStyle}

\* the answers to the settings dialog, with a yq that may fail
settings_responses ==
    \/ \E rs \in ReadOutcomes(store) :
          settings_response("cancel", rs, FALSE, store)
    \/ settings_response("ok_invalid_port", yq_reads(store), FALSE, store)
    \/ \E rs \in ReadOutcomes(store) :
          settings_response("ok", rs, FALSE, store)
    \/ \E doc \in Saved : \E rs \in ReadOutcomes(doc) :
          settings_response("ok", rs, TRUE, doc)

(***************************************************************************)
(* Add dialogs: the run loops and the _on_done callbacks.                  *)
(***************************************************************************)
\* _on_add_*: the dialog is shown (super().run())
on_add ==
    /\ MainLoop
    /\ Len(uistack) < MaxDepth
    /\ uistack' = Append(uistack, "add_dialog")
    /\ blocking' = NoCall
    /\ handler
    /\ UNCHANGED <<ui_vars, config, store, threads, idleq, next_id, cb_runs,
                   quit, last_apply, followup, last_poll, cl_rc, cl_state,
                   startup, timer, stable, io_vars>>

\* one round of the loop of an add dialog's run; args: "add" for a
\* connection or a host, "add -l" for a local or remote forward
add_response(resp, args) ==
    /\ MainLoop
    /\ uistack # <<>> /\ Top = "add_dialog"
    /\ resp = "ok" => Room(1)
    /\ CASE resp = "cancel"     -> uistack' = Pop /\ no_async
         [] resp = "ok_invalid" -> uistack' = Append(uistack, "add_invalid")
                                   /\ no_async
         [] resp = "ok"         -> uistack' = Pop /\ run_async(args, "add_done")
    /\ Runs(0)
    /\ UNCHANGED <<ui_vars, config, store, idleq, quit, blocking, cb_depth,
                   last_apply, followup, cl_rc, cl_state, startup, timer,
                   stable, io_vars>>

\* _on_done of the add dialogs: an _alert, or, for a forward that was added,
\* _show_restart_if_running
add_done ==
    /\ MainLoop
    /\ idleq # <<>> /\ Head(idleq).cb = "add_done"
    /\ LET e == Head(idleq)
       IN  uistack' = Append(uistack,
                             IF e.rc = 0 /\ e.args = "add -l"
                             THEN show_restart_if_running("add_done")
                             ELSE "add_done")
    /\ blocking' = NoCall
    /\ callback
    /\ Dispatched("None")
    /\ no_async
    /\ Runs(Head(idleq).id)
    /\ UNCHANGED <<ui_vars, config, store, quit, last_apply, followup, cl_rc,
                   cl_state, startup, timer, stable, io_vars>>

(***************************************************************************)
(* Test Any: a modal dialog, then run_cmd on the UI thread.                *)
(***************************************************************************)
\* _on_test_any up to dlg.run()
on_test_any ==
    /\ MainLoop
    /\ sens.test_any
    /\ Len(uistack) < MaxDepth
    /\ uistack' = Append(uistack, "test_any")
    /\ blocking' = NoCall
    /\ handler
    /\ UNCHANGED <<ui_vars, config, store, threads, idleq, next_id, cb_runs,
                   quit, last_apply, followup, last_poll, cl_rc, cl_state,
                   startup, timer, stable, io_vars>>

\* _on_test_any from the answer on: run_cmd(f'test {target}') for OK with a
\* target
test_any_response(ok) ==
    /\ MainLoop
    /\ uistack # <<>> /\ Top = "test_any"
    /\ uistack' = Pop
    /\ blocking' = IF ok THEN [NoCall EXCEPT !.args = "test"] ELSE blocking
    /\ UNCHANGED <<ui_vars, config, store, threads, idleq, next_id, cb_runs,
                   quit, cb_depth, last_apply, followup, last_poll, cl_rc,
                   cl_state, startup, timer, stable, io_vars>>

(***************************************************************************)
(* The program.                                                            *)
(***************************************************************************)
\* the controller: startup check, periodic poll, Start / Stop / Restart
Next ==
    \/ \E t \in threads, o \in Outcomes : worker(t, o)
    \/ \E o \in Outcomes : startup_check(o)
    \/ tick
    \/ on_poll_result
    \/ on_start
    \/ on_stop
    \/ on_restart
    \/ after_proxy_cmd
    \/ close_alert

Spec == Init /\ [][Next]_vars

\* the commands that run through a dialog: Reset All and the Remove dialogs
NextDialogs ==
    \/ \E t \in threads, o \in Outcomes : worker(t, o)
    \/ \E o \in Outcomes : startup_check(o)
    \/ on_poll_result
    \/ close_alert
    \/ on_reset
    \/ \E ok \in BOOLEAN : on_reset_response(ok)
    \/ reset_done
    \/ on_rm
    \/ \E resp \in {"cancel", "ok_empty", "ok"} : rm_response(resp)
    \/ rm_done

SpecDialogs == Init /\ [][NextDialogs]_vars

\* nothing is in progress: no command runs, no result waits, no dialog is
\* open
Idle == threads = {} /\ idleq = <<>> /\ uistack = <<>>

\* every handler that runs a command or opens a dialog, beside the startup
\* check and the polls that the callbacks issue, with a working yq and a
\* user who activates a menu item when nothing is in progress
NextHandlers ==
    \/ \E t \in threads, o \in Outcomes : worker(t, o)
    \/ \E o \in Outcomes : startup_check(o)
    \/ on_poll_result
    \/ after_proxy_cmd
    \/ close_alert
    \/ Idle /\ on_add
    \/ \E resp \in {"cancel", "ok_invalid", "ok"}, args \in {"add", "add -l"} :
          add_response(resp, args)
    \/ add_done
    \/ \E ok \in BOOLEAN : restart_response(ok)
    \/ Idle /\ on_rm
    \/ \E resp \in {"cancel", "ok_empty", "ok"} : rm_response(resp)
    \/ rm_done
    \/ Idle /\ on_reset
    \/ \E ok \in BOOLEAN : on_reset_response(ok)
    \/ reset_done
    \/ Idle /\ on_list_all
    \/ Idle /\ on_check_status
    \/ Idle /\ on_test_all
    \/ Idle /\ on_test_any
    \/ \E ok \in BOOLEAN : test_any_response(ok)
    \/ Idle /\ on_settings(yq_reads(store))
    \/ \E style_id \in LogoStyle \cup {"None"} : on_logo_style_changed(style_id)
    \/ \E resp \in {"cancel", "ok_invalid_port", "ok"}, doc \in Saved :
          settings_response(resp, yq_reads(IF resp = "ok" THEN doc ELSE store),
                            TRUE, doc)

SpecHandlers == Init /\ [][NextHandlers]_vars

\* the settings dialog, with any stored document and a yq that may fail
InitConfig ==
    \E document \in StoredDocuments : \E rs \in ReadOutcomes(document) :
        InitOf(document, 0, rs, Installed)

NextConfig ==
    \/ \E o \in Outcomes : startup_check(o)
    \/ close_alert
    \/ \E rs \in ReadOutcomes(store) : on_settings(rs)
    \/ \E style_id \in LogoStyle \cup {"None"} : on_logo_style_changed(style_id)
    \/ settings_responses

SpecConfig == InitConfig /\ [][NextConfig]_vars

\* Reset All on its own, beside the status polls its callback issues
NextReset ==
    \/ \E t \in threads, o \in Outcomes : worker(t, o)
    \/ \E o \in Outcomes : startup_check(o)
    \/ on_poll_result
    \/ close_alert
    \/ on_reset
    \/ \E ok \in BOOLEAN : on_reset_response(ok)
    \/ reset_done

SpecReset == InitAny /\ [][NextReset]_vars

\* the commands that call run_cmd themselves, beside the periodic poll
NextSync ==
    \/ \E t \in threads, o \in Outcomes : worker(t, o)
    \/ \E o \in Outcomes : startup_check(o)
    \/ tick
    \/ on_poll_result
    \/ close_alert
    \/ on_list_all
    \/ on_check_status
    \/ on_test_all
    \/ \E o \in Outcomes : on_quit(o)

SpecSync == InitAny /\ [][NextSync]_vars

(***************************************************************************)

(* The controller under fair scheduling, with a status query that settles: *)
(* the main loop dispatches every ready source, the timer keeps firing and *)
(* every subprocess ends (run_cmd bounds it by its timeout).               *)
(***************************************************************************)
\* room for n more invocations in a fair run
LiveRoom(n) == next_id + Reserved + n - 1 <= MaxLive

\* the external status stops changing: from now on 'ps' exits with rc
settle(rc) ==
    /\ ~quit
    /\ stable = NoRc
    /\ Reserved = 0                  \* no user command is outstanding
    /\ LiveRoom(1)                   \* the timer will fire again
    /\ stable' = rc
    /\ UNCHANGED <<ui_vars, config, store, threads, idleq, uistack, next_id,
                   cb_runs, quit, blocking, cb_depth, last_apply, followup,
                   last_poll, cl_rc, cl_state, startup, timer, io_vars>>

\* what a subprocess may do once the status has settled
Answers(args, o) ==
    (stable # NoRc /\ args = "ps") =>
        (o.kind = "exit" /\ o.returncode = stable)

workers == \E t \in threads, o \in Outcomes : Answers(t.args, o) /\ worker(t, o)

startup_query == \E o \in Outcomes : Answers("ps", o) /\ startup_check(o)

timer_tick == LiveRoom(1) /\ tick

\* user commands are issued only while the status still changes
NextLive ==
    \/ workers
    \/ startup_query
    \/ timer_tick
    \/ on_poll_result
    \/ stable = NoRc /\ LiveRoom(2) /\ on_start
    \/ stable = NoRc /\ LiveRoom(2) /\ on_stop
    \/ after_proxy_cmd
    \/ close_alert
    \/ \E rc \in ExitCodes : settle(rc)

Fairness ==
    /\ WF_vars(workers)
    /\ WF_vars(startup_query)
    /\ WF_vars(timer_tick)
    /\ WF_vars(on_poll_result)
    /\ WF_vars(after_proxy_cmd)

SpecLive == Init /\ [][NextLive]_vars /\ Fairness

\* the timer fires a bounded number of times
few_ticks == timer.ticks < MaxTicks /\ tick

\* Start commands beside the periodic poll, under the same scheduling and
\* with a status that keeps changing
NextProxy ==
    \/ workers
    \/ startup_query
    \/ few_ticks
    \/ on_poll_result
    \/ on_start
    \/ after_proxy_cmd
    \/ close_alert

FairProxy ==
    /\ WF_vars(workers)
    /\ WF_vars(startup_query)
    /\ WF_vars(on_poll_result)
    /\ WF_vars(after_proxy_cmd)

SpecProxy == Init /\ [][NextProxy]_vars /\ FairProxy

(***************************************************************************)
(* Quit, with either value of stop_on_quit in the config and with status   *)
(* polls in flight.                                                        *)
(***************************************************************************)
NextQuit ==
    \/ \E t \in threads, o \in Outcomes : worker(t, o)
    \/ \E o \in Outcomes : startup_check(o)
    \/ few_ticks
    \/ on_poll_result
    \/ close_alert
    \/ \E o \in Outcomes : on_quit(o)

SpecQuit == InitAny /\ [][NextQuit]_vars

(***************************************************************************)
(* The classifier on its own: _rc_to_state applied to any exit code.       *)
(***************************************************************************)
InitClassify == \E rc \in (0 - MaxRc)..MaxRc : InitWith(NoSettings, rc)

classify ==
    /\ cl_state = "none"
    /\ cl_state' = rc_to_state(cl_rc)
    /\ UNCHANGED <<ui_vars, config, store, threads, idleq, uistack, next_id,
                   cb_runs, quit, blocking, cb_depth, last_apply, followup,
                   last_poll, cl_rc, startup, timer, stable, io_vars>>

NextClassify == classify

SpecClassify == InitClassify /\ [][NextClassify]_vars

(***************************************************************************)
(* The icon resolver on its own: _state_icon_path called again and again   *)
(* (by _setup_indicator, _update_tray_icon, the settings live preview) on  *)
(* an icon directory that is complete, partial or missing.                 *)
(***************************************************************************)
\* icon directories: missing, or holding the assets of some styles, for
\* both theme variants or for the dark one only
Installations ==
    {[icons_dir |-> FALSE, svgs |-> {}, pngs |-> {}]}
    \cup {[icons_dir |-> TRUE, svgs |-> Assets(styles, variants), pngs |-> {}] :
             styles \in SUBSET LogoStyle, variants \in {Variants, {"dark"}}}

InitIcons == \E files \in Installations :
                InitOf(NoSettings, 0, yq_reads(NoSettings), files)

\* one call of _state_icon_path.  os.makedirs(cache_dir, exist_ok=True)
\* cannot fail for a directory that holds a raster.
resolve(state_name, logo_style, dark, makedirs_ok, convert_ok) ==
    /\ resolved.calls < MaxCalls
    /\ ~makedirs_ok => fs.pngs = {}
    /\ LET r == state_icon_path(fs, state_name, logo_style, dark,
                                makedirs_ok, convert_ok)
           variant == IF dark THEN "light" ELSE "dark"
       IN  /\ fs' = [fs EXCEPT !.pngs = r.pngs]
           /\ resolved' =
                 [calls       |-> resolved.calls + 1,
                  key         |-> <<logo_style, state_name, variant>>,
                  path        |-> r.path,
                  converted   |-> r.converted,
                  cached      |-> r.path \in fs.pngs,
                  makedirs_ok |-> makedirs_ok,
                  convert_ok  |-> convert_ok,
                  prev        |-> [key |-> resolved.key, path |-> resolved.path]]
    /\ UNCHANGED <<ui_vars, config, store, threads, idleq, uistack, next_id,
                   cb_runs, quit, blocking, cb_depth, last_apply, followup,
                   last_poll, cl_rc, cl_state, startup, timer, stable,
                   last_read>>

NextIcons ==
    \E state_name \in IconNames, logo_style \in LogoStyle,
       dark \in BOOLEAN, makedirs_ok \in BOOLEAN, convert_ok \in BOOLEAN :
        resolve(state_name, logo_style, dark, makedirs_ok, convert_ok)

SpecIcons == InitIcons /\ [][NextIcons]_vars

(***************************************************************************)
(* Properties.                                                             *)
(***************************************************************************)
\* invocation i has been issued and its worker has handed over the result
\* for the last time: it is neither running nor an idle source
Finished(i) ==
    /\ \A t \in threads : t.id # i
    /\ \A k \in 1..Len(idleq) : idleq[k].id # i

\* a start / stop / restart command is outstanding: issued, and its
\* completion callback has not run yet
Outstanding(args) ==
    \/ \E t \in threads : t.cb = "after_proxy_cmd" /\ t.args \in args
    \/ \E k \in 1..Len(idleq) :
          idleq[k].cb = "after_proxy_cmd" /\ idleq[k].args \in args

ProxyOutstanding ==
    \/ \E t \in threads : t.cb = "after_proxy_cmd"
    \/ \E k \in 1..Len(idleq) : idleq[k].cb = "after_proxy_cmd"

\* this step is the main loop running _after_proxy_cmd
AfterProxyCmdStep ==
    /\ idleq # <<>>
    /\ Head(idleq).cb = "after_proxy_cmd"
    /\ cb_runs'[Head(idleq).id] = cb_runs[Head(idleq).id] + 1

\* C1: whatever the exit code of a start / stop / restart command and
\* whether or not the error dialog is shown, its completion callback issues
\* exactly one status poll (one new worker, running 'ps' for
\* _on_poll_result), sets the state to INITIAL and applies no state: label,
\* icon and sensitivity stay as they are.
C1_OneFollowUpPoll ==
    [][AfterProxyCmdStep =>
          /\ next_id' = next_id + 1
          /\ threads' = threads \cup {[id |-> next_id, args |-> "ps",
                                       cb |-> "on_poll_result"]}
          /\ state' = "INITIAL"
          /\ last_apply' = NoApply
          /\ UNCHANGED <<status_label, icon, sens>>]_vars

\* a failed command (exit code not 0) has completed, the error dialog is
\* open and the follow-up poll runs
C1_Witness ==
    /\ uistack # <<>> /\ Top = "after_proxy_cmd"
    /\ state = "INITIAL"
    /\ followup.id # 0
    /\ \E t \in threads : t.id = followup.id /\ t.args = "ps"

\* C2 (as claimed): a poll was in flight when a command completed, the
\* follow-up poll of the completion is the latest poll issued, and every
\* invocation has been delivered: then the state is the classification of
\* the follow-up poll's exit code.
C2_FollowUpWins ==
    (/\ threads = {}
     /\ idleq = <<>>
     /\ followup.id # 0
     /\ followup.pre
     /\ last_poll = followup.id)
    => (followup.delivered /\ state = rc_to_state(followup.rc))

\* C3 (as claimed): while a start / stop / restart command is outstanding
\* the status label is the in-progress label set at the click.
C3_LabelKept == ProxyOutstanding => status_label[2] \in InProgress

\* C4 (as claimed): while a start (stop, restart) command is outstanding
\* the Start (Stop, Restart) item is insensitive.
C4_ItemStaysDisabled ==
    /\ Outstanding({"start"}) => ~sens.start
    /\ Outstanding({"stop", "stop --keep-ports"}) => ~sens.stop
    /\ Outstanding({"restart"}) => ~sens.restart

\* C5 (as claimed): the callback of every run_async invocation is executed
\* at most once, and exactly once when its idle source is gone.
C5_CallbackOnce ==
    \A i \in DOMAIN cb_runs :
        /\ cb_runs[i] <= 1
        /\ (cb_runs[i] > 0 /\ Finished(i)) => cb_runs[i] = 1

\* C6 (as claimed): no callback of the main loop (idle callback or timer
\* tick) starts while another one is still executing.
C6_OneAtATime == cb_depth = 0

\* C7 (as claimed): no handler on the UI thread runs the CLI itself.
C7_NoBlockingCall == blocking.args = "none"

\* C8: _rc_to_state maps 0 to RUNNING, 2 to STOPPED_PARTIALLY, 3 to STOPPED
\* and every other exit code, 1 and the negative ones included, to ERROR;
\* it has a value for every exit code and never yields INITIAL.
C8_Classifier ==
    cl_state # "none" =>
        /\ cl_rc = 0 => cl_state = "RUNNING"
        /\ cl_rc = 2 => cl_state = "STOPPED_PARTIALLY"
        /\ cl_rc = 3 => cl_state = "STOPPED"
        /\ cl_rc \notin {0, 2, 3} => cl_state = "ERROR"
        /\ cl_state \in ProcessState \ {"INITIAL"}

\* a negative exit code has been classified
C8_Witness == cl_state = "ERROR" /\ cl_rc < 0

\* C9 (as claimed): of any two _apply_state calls in a row with the same
\* state, the first one updated the UI and the second one did not: the pair
\* makes exactly one UI update.
C9_ExactlyOneUpdate ==
    last_apply.again # "no" =>
        (last_apply.again = "updated" /\ ~last_apply.updated)

\* C9 (amended): the second of two _apply_state calls in a row with the same
\* state s never updates the UI; when s differed from the committed state
\* before the first call, the pair makes exactly one UI update (the first
\* call's) and state, label and sensitivity are those of s.  (When s was
\* already committed, neither call updates.)
C9_SecondApplyNoOp ==
    /\ last_apply.again # "no" => ~last_apply.updated
    /\ last_apply.again = "updated" =>
          /\ state = last_apply.arg
          /\ status_label = <<dot(state), label(state)>>
          /\ sens.start = (state \notin {"RUNNING", "ERROR"})
          /\ sens.stop = (state \in {"RUNNING", "STOPPED_PARTIALLY"})

\* the second of two calls in a row with the same state, after a first one
\* that updated the UI
C9_Witness == last_apply.again = "updated" /\ last_apply.arg = "RUNNING"

\* C10: right after _apply_state has committed a new state s, Start is
\* sensitive iff s is neither RUNNING nor ERROR, and Stop, Restart, Test Any
\* and Test All are sensitive iff s is RUNNING or STOPPED_PARTIALLY; in
\* particular STOPPED has Start enabled and Stop and Restart disabled.
C10_SensitivityOfState ==
    last_apply.updated =>
        /\ state = last_apply.arg
        /\ sens.start <=> state # "RUNNING" /\ state # "ERROR"
        /\ sens.stop <=> state \in {"RUNNING", "STOPPED_PARTIALLY"}
        /\ sens.restart <=> state \in {"RUNNING", "STOPPED_PARTIALLY"}
        /\ sens.test_any <=> state \in {"RUNNING", "STOPPED_PARTIALLY"}
        /\ sens.test_all <=> state \in {"RUNNING", "STOPPED_PARTIALLY"}
        /\ state = "STOPPED" => sens.start /\ ~sens.stop /\ ~sens.restart

\* a poll with exit code 3 has just been applied: STOPPED, Start enabled,
\* Stop and Restart disabled
C10_Witness ==
    /\ last_apply.updated
    /\ state = "STOPPED"
    /\ followup.delivered /\ followup.rc = 3
    /\ sens.start /\ ~sens.stop /\ ~sens.restart

\* this step is the main loop running _startup_check
StartupStep == startup'.runs # startup.runs

\* C11: _startup_check runs once (its idle source is removed); it applies
\* the classification of its query, and it shows the welcome dialog if and
\* only if that classification is ERROR and the text contains "no default
\* connection found"; no other handler (periodic poll, follow-up poll,
\* completion callback) shows it, so it is shown at most once.
C11_WelcomeOnce ==
    [][/\ StartupStep =>
            /\ startup.runs = 0
            /\ \A i \in 1..Len(idleq') : idleq'[i].cb # "startup_check"
            /\ state' = rc_to_state(blocking'.rc)
            /\ (startup'.welcomes = startup.welcomes + 1)
                  <=> (/\ rc_to_state(blocking'.rc) = "ERROR"
                       /\ Contains(blocking'.out, "no default connection found"))
            /\ startup'.welcomes \in {startup.welcomes, startup.welcomes + 1}
       /\ ~StartupStep =>
            /\ startup'.welcomes = startup.welcomes
            /\ Len(SelectSeq(uistack', LAMBDA f : f = "startup_check"))
                  <= Len(SelectSeq(uistack, LAMBDA f : f = "startup_check"))
            /\ (\A i \in 1..Len(idleq) : idleq[i].cb # "startup_check")
                  => \A i \in 1..Len(idleq') : idleq'[i].cb # "startup_check"
      ]_vars

\* the welcome dialog was shown once and closed, and a later poll that
\* classified as ERROR again did not show it
C11_Witness ==
    /\ startup = [runs |-> 1, welcomes |-> 1]
    /\ uistack = <<>>
    /\ state = "ERROR"
    /\ last_apply.arg = "ERROR" /\ last_apply.again # "no"

\* C12 (as claimed): when a UI update step failed during the latest
\* _apply_state(new_state), the committed state is still the previous one
\* and neither label nor sensitivity shows new_state; when none failed,
\* state, label, icon and sensitivity all show new_state.
C12_AllOrNothing ==
    LET new_state == last_apply.arg
    IN  /\ last_apply.icon_failed =>
              /\ state # new_state
              /\ status_label # <<dot(new_state), label(new_state)>>
        /\ (last_apply.updated /\ ~last_apply.icon_failed) =>
              /\ state = new_state
              /\ status_label = <<dot(new_state), label(new_state)>>
              /\ icon = icon_name(new_state)
              /\ sens = Sensitivity(new_state)

\* this step is the timer source firing (_poll)
TickStep == timer'.ticks # timer.ticks

\* this step is the main loop running _on_poll_result
PollResultStep ==
    /\ idleq # <<>>
    /\ Head(idleq).cb = "on_poll_result"
    /\ cb_runs'[Head(idleq).id] = cb_runs[Head(idleq).id] + 1

\* C14: every tick of the timer issues exactly one asynchronous status
\* query ('ps' for _on_poll_result), whatever is in flight, touches nothing
\* of the UI and leaves the timer installed; no step of the running program
\* removes the timer; and every poll result is handed to _apply_state with
\* the classification of its exit code.
C14_TimerKeepsPolling ==
    [][/\ TickStep =>
            /\ timer'.armed
            /\ next_id' = next_id + 1
            /\ threads' = threads \cup {[id |-> next_id, args |-> "ps",
                                         cb |-> "on_poll_result"]}
            /\ UNCHANGED ui_vars
       /\ (timer.armed /\ ~quit') => timer'.armed
       /\ PollResultStep =>
            /\ last_apply'.arg = rc_to_state(Head(idleq).rc)
            /\ state' = rc_to_state(Head(idleq).rc)
      ]_vars

\* the timer fired while a user command was outstanding: the poll of the
\* tick runs beside the command's worker
C14_Witness ==
    /\ timer.armed /\ timer.ticks >= 1
    /\ followup.id = 0
    /\ \E t \in threads, u \in threads :
          /\ t.cb = "after_proxy_cmd"
          /\ u.args = "ps" /\ u.id > t.id

\* this step is a worker of run_async ending
WorkerStep == ~quit' /\ threads' # threads /\ threads' \subseteq threads

\* C16: a command that exceeds its timeout comes back from run_cmd as exit
\* code 1 with the text "Command timed out" (the text is seen where the
\* callback keeps it), and a status poll that timed out is applied as ERROR.
C16_TimeoutIsError ==
    [][/\ \A i \in 1..Len(idleq') :
            idleq'[i].kind = "timeout" =>
               /\ idleq'[i].rc = 1
               /\ idleq'[i].cb = "after_proxy_cmd" =>
                     idleq'[i].out = "Command timed out"
       /\ (PollResultStep /\ Head(idleq).kind = "timeout") =>
            /\ last_apply'.arg = "ERROR"
            /\ state' = "ERROR"
            /\ status_label' = <<dot("ERROR"), label("ERROR")>>
      ]_vars

\* a status poll has timed out and its result, exit code 1, waits to be
\* applied while the state is not ERROR
C16_Witness ==
    /\ idleq # <<>>
    /\ Head(idleq).cb = "on_poll_result"
    /\ Head(idleq).kind = "timeout" /\ Head(idleq).rc = 1
    /\ state \in {"RUNNING", "STOPPED"}

\* C17: a command that cannot be launched comes back from run_cmd as the
\* pair (message, 1); every worker that ends hands over exactly one result,
\* and the query _startup_check runs itself yields an exit code as well, so
\* nothing is raised into the hand-off or the UI thread.
C17_LaunchFailureIsData ==
    [][/\ \A i \in 1..Len(idleq') :
            idleq'[i].kind = "exception" =>
               /\ idleq'[i].rc = 1
               /\ idleq'[i].cb = "after_proxy_cmd" => idleq'[i].out = "str(exc)"
       /\ \A i \in 1..Len(idleq') : idleq'[i].rc \in ExitCodes
       /\ WorkerStep =>
            /\ Len(idleq') = Len(idleq) + 1
            /\ {idleq'[Len(idleq')].id} = {t.id : t \in threads \ threads'}
       /\ StartupStep =>
            /\ blocking'.rc \in ExitCodes
            /\ state' = rc_to_state(blocking'.rc)
      ]_vars

\* a start / stop / restart command could not be launched and its result
\* (message, 1) has been handed over
C17_Witness ==
    \E i \in 1..Len(idleq) :
        /\ idleq[i].cb = "after_proxy_cmd"
        /\ idleq[i].kind = "exception"
        /\ idleq[i].rc = 1 /\ idleq[i].out = "str(exc)"

C19_CompletionOrder ==
    [][/\ WorkerStep =>
            /\ Len(idleq') = Len(idleq) + 1
            /\ SubSeq(idleq', 1, Len(idleq)) = idleq
       /\ ~WorkerStep => (idleq' = idleq \/ (idleq # <<>> /\ idleq' = Tail(idleq)))
       /\ \A i \in DOMAIN cb_runs :
            cb_runs'[i] # cb_runs[i] =>
               /\ idleq # <<>> /\ Head(idleq).id = i
               /\ idleq' = Tail(idleq)
      ]_vars

\* invocation j was issued after invocation i, its result was handed over
\* first and its callback has run, while the result of i is still pending
C19_Witness ==
    \E k \in 1..Len(idleq), j \in DOMAIN cb_runs :
        /\ idleq[k].id > 0 /\ idleq[k].id < j
        /\ cb_runs[idleq[k].id] = 0
        /\ cb_runs[j] = 1

\* C20: a worker that ends changes nothing but the pending results: state,
\* label, icon, sensitivity, the in-memory config and the stored config are
\* left alone, as is everything else of the UI thread; so every step that
\* changes one of them is a step of the UI thread.
C20_WorkersTouchNothing ==
    [][/\ WorkerStep =>
            /\ UNCHANGED <<state, status_label, icon, sens, config, store>>
            /\ UNCHANGED <<uistack, next_id, cb_runs, timer, last_apply>>
            /\ \E t \in threads \ threads' :
                  /\ threads' = threads \ {t}
                  /\ Len(idleq') = Len(idleq) + 1
                  /\ idleq'[Len(idleq')].id = t.id
                  /\ idleq'[Len(idleq')].cb = t.cb
       /\ (\/ state' # state \/ status_label' # status_label \/ icon' # icon
           \/ sens' # sens \/ config' # config) => threads \subseteq threads'
      ]_vars

\* the worker of the reset command has handed over its result, the reset
\* callback has run on the UI thread (reloading the config and issuing a
\* poll), and the worker of that poll is running
C20_Witness ==
    /\ \E i \in 1..Len(idleq) :
          idleq[i].cb = "reset_done" /\ cb_runs[idleq[i].id] >= 1
    /\ state # "INITIAL"
    /\ \E t \in threads : t.id = last_poll /\ t.args = "ps"

\* the UI shows the state of the exit code the status query has settled at
Converged ==
    /\ state = rc_to_state(stable)
    /\ status_label = <<dot(state), label(state)>>
    /\ sens = Sensitivity(state)

\* C13: once the status query has settled at one exit code rc and no user
\* command is issued or outstanding, the committed state eventually is
\* rc_to_state(rc) with the label and sensitivity of that state, and this
\* stays so.
C13_ConvergesToStatus == <>[](stable # NoRc => Converged)

\* the status query settled at exit code 3 and a poll issued by the timer
\* has moved the UI to STOPPED
C13_Witness ==
    /\ stable = 3
    /\ Converged
    /\ last_apply.updated /\ last_apply.arg = "STOPPED"
    /\ startup.runs = 1 /\ timer.ticks >= 1

\* C15: under fair scheduling every invocation issued through run_async has
\* its callback run on the UI thread, whatever the subprocess did (exit
\* code, timeout, launch failure).
C15_EveryCallbackDelivered ==
    \A i \in 1..MaxInv :
        (i \in DOMAIN cb_runs) ~> (i \in DOMAIN cb_runs /\ cb_runs[i] >= 1)

\* the callback of a start / stop / restart command that failed has run:
\* its error dialog is open and the follow-up poll is running
C15_Witness ==
    /\ uistack # <<>> /\ Top = "after_proxy_cmd"
    /\ blocking = NoCall
    /\ \E i \in DOMAIN cb_runs : cb_runs[i] = 1 /\ i < followup.id
    /\ \E t \in threads : t.id = followup.id

\* C21 (as claimed): whenever the completion callback of a start / stop /
\* restart command gets a non-zero exit code, it opens the error dialog.
C21_FailureShowsDialog ==
    [][(AfterProxyCmdStep /\ Head(idleq).rc # 0) =>
          uistack' = Append(uistack, "after_proxy_cmd")]_vars

\* C22: when the icon update failed during an _apply_state call that found
\* a new state, the call still set the label and the sensitivity of the new
\* state and committed it; only the icon is the old one.
C22_IconFailureDoesNotBlock ==
    last_apply.icon_failed =>
        /\ last_apply.updated
        /\ state = last_apply.arg
        /\ status_label = <<dot(state), label(state)>>
        /\ sens = Sensitivity(state)

\* a poll result moved the state to STOPPED_PARTIALLY while the icon update
\* failed: the icon is not that of the new state
C22_Witness ==
    /\ last_apply.icon_failed
    /\ state = "STOPPED_PARTIALLY"
    /\ icon # icon_name("STOPPED_PARTIALLY")
    /\ sens.stop /\ sens.start
    /\ startup.runs = 1 /\ last_poll # 0

\* the style the latest call was made with, its icon name and its variant
ReqStyle == resolved.key[1]

ReqName == resolved.key[2]

ReqVariant == resolved.key[3]

\* the vector asset of the requested style (of the default style) exists
OwnAsset == <<dir_name(ReqStyle), ReqVariant, ReqName>> \in fs.svgs

DefaultAsset == <<dir_name(DEFAULT_LOGO_STYLE), ReqVariant, ReqName>> \in fs.svgs

\* the latest call returned a raster of the cache
Raster == resolved.path \notin {ICON_PATH, Raised}

\* C23 (as claimed): no call of _state_icon_path raises, and a call that
\* met a failure (icon directory missing, no vector asset for the style and
\* the default style, cache directory not creatable, conversion error)
\* returned the global fallback icon path.
C23_NeverRaises ==
    resolved.calls > 0 =>
        /\ resolved.path # Raised
        /\ (\/ ~fs.icons_dir
            \/ (~OwnAsset /\ ~DefaultAsset)
            \/ ~resolved.makedirs_ok
            \/ (resolved.converted /\ ~resolved.convert_ok))
           => resolved.path = ICON_PATH

\* C24: when a call returned a raster and the next call asks for the same
\* (style, icon name, variant), that call returns the same raster path and
\* does not invoke the conversion.
C24_SecondCallCached ==
    (/\ resolved.calls >= 2
     /\ resolved.prev.key = resolved.key
     /\ resolved.prev.path \notin {ICON_PATH, Raised})
    => (/\ resolved.path = resolved.prev.path
        /\ resolved.cached
        /\ ~resolved.converted)

\* two calls for the same key on an empty cache: the first converted the
\* asset, the second returned the same raster without converting
C24_Witness ==
    /\ resolved.calls = 2
    /\ resolved.prev.key = resolved.key
    /\ Raster
    /\ resolved.path = resolved.prev.path
    /\ ~resolved.converted
    /\ fs.pngs = {resolved.path}

\* C25: the lookup follows the chain requested style, default style, global
\* fallback: a raster returned is that of the requested style when its
\* asset exists for the variant and icon name, and otherwise that of the
\* default style, whose asset then exists; when neither asset exists the
\* global fallback icon is returned; when an asset exists and creating or
\* reading the raster does not fail, a raster is returned; and every raster
\* in the cache is named after a style whose asset exists.
C25_FallbackChain ==
    /\ resolved.calls > 0 =>
          /\ Raster =>
                /\ fs.icons_dir
                /\ OwnAsset =>
                      resolved.path = png(dir_name(ReqStyle), ReqName, ReqVariant)
                /\ ~OwnAsset =>
                      /\ DefaultAsset
                      /\ resolved.path = png(dir_name(DEFAULT_LOGO_STYLE),
                                             ReqName, ReqVariant)
          /\ (~fs.icons_dir \/ (~OwnAsset /\ ~DefaultAsset)) =>
                resolved.path = ICON_PATH
          /\ (/\ fs.icons_dir
              /\ OwnAsset \/ DefaultAsset
              /\ resolved.makedirs_ok
              /\ resolved.cached \/ resolved.convert_ok) => Raster
    /\ \A file \in fs.pngs : <<file[1], file[3], file[2]>> \in fs.svgs

\* the gear style was asked for, its asset is missing and that of the
\* default style exists: the raster of the default style was returned
C25_Witness ==
    /\ resolved.calls > 0
    /\ ReqStyle = "GEAR"
    /\ ~OwnAsset /\ DefaultAsset
    /\ resolved.path = png("colored_glasses", ReqName, ReqVariant)
    /\ resolved.path \in fs.pngs

\* the read met one of the cases in which ConfigHelper.read has no value:
\* no document, yq not run to its end, a non-zero exit code, or null
NoValue(r) ==
    \/ ~r.exists
    \/ r.kind # "exit"
    \/ r.returncode # 0
    \/ r.stdout = "null"

\* C26: a read that has no value (no document, yq failing to run, a
\* non-zero exit code, null) yields the default it was called with: after a
\* load_app_config, and until the settings dialog previews another logo
\* style, the switch of such a read is on and the logo style of such a read
\* is the default one, and a read that has a value yields that value; and
\* in every state the in-memory logo style is the name of a LogoStyle
\* member, whatever text is stored, so _current_logo_style never fails.
C26_ReadsNeverFail ==
    /\ config.logo_style \in LogoStyle
    /\ ~last_read.preview =>
          LET rs == last_read.reads
          IN  /\ NoValue(rs.stop_on_quit) => config.stop_on_quit
              /\ ~NoValue(rs.stop_on_quit) =>
                    (config.stop_on_quit <=> rs.stop_on_quit.stdout = "1")
              /\ NoValue(rs.ephemeral_ports) => config.ephemeral_ports
              /\ ~NoValue(rs.ephemeral_ports) =>
                    (config.ephemeral_ports <=> rs.ephemeral_ports.stdout = "1")
              /\ NoValue(rs.logo_style) =>
                    config.logo_style = DEFAULT_LOGO_STYLE
              /\ (~NoValue(rs.logo_style) /\ rs.logo_style.stdout \in LogoStyle) =>
                    config.logo_style = rs.logo_style.stdout
              /\ (~NoValue(rs.logo_style)
                  /\ upper(rs.logo_style.stdout) \notin LogoStyle) =>
                    config.logo_style = DEFAULT_LOGO_STYLE

\* the settings dialog was opened on a document whose stored logo style is
\* no member name, yq read that text, and the read of one switch failed
\* with a non-zero exit code: the style is the default and the switch is on
C26_Witness ==
    /\ uistack # <<>> /\ Top = "settings"
    /\ store.logo_style = "neon"
    /\ last_read.reads.logo_style.stdout = "neon"
    /\ last_read.reads.logo_style.returncode = 0
    /\ last_read.reads.stop_on_quit.returncode = 1
    /\ ~last_read.preview
    /\ config.logo_style = DEFAULT_LOGO_STYLE
    /\ config.stop_on_quit
    /\ startup.runs = 1

\* a completion callback has reset the state and no poll result has been
\* applied since
AwaitingUpdate == followup.id # 0 /\ state = "INITIAL"

\* the UI shows a committed state other than INITIAL: its label and the
\* sensitivity _apply_state sets for it
Updated ==
    /\ state # "INITIAL"
    /\ status_label = <<dot(state), label(state)>>
    /\ sens = Sensitivity(state)

C28_SensitivityInvariant ==
    /\ state \in {"RUNNING", "ERROR"} => ~sens.start
    /\ state \in {"STOPPED", "ERROR"} =>
          /\ ~sens.stop
          /\ ~sens.restart
          /\ ~sens.test_any
          /\ ~sens.test_all

\* a Stop is outstanding in RUNNING while a poll of the timer runs: Start
\* and Stop are both insensitive
C28_Witness ==
    /\ state = "RUNNING"
    /\ Outstanding({"stop", "stop --keep-ports"})
    /\ \E t \in threads : t.args = "ps"
    /\ ~sens.start /\ ~sens.stop /\ sens.restart
    /\ timer.ticks >= 1

\* C29: no _apply_state call is made with INITIAL and none commits it: a
\* call leaves the state it was made with, which is not INITIAL, and the
\* startup check and every poll result leave a state other than INITIAL;
\* so the state is INITIAL only before the startup check has applied the
\* first state, or after a completion callback of start / stop / restart
\* with no _apply_state call since.
C29_InitialOnlyTransient ==
    /\ [](/\ last_apply.arg # "none" =>
               /\ last_apply.arg # "INITIAL"
               /\ state = last_apply.arg
          /\ state = "INITIAL" =>
               \/ startup.runs = 0
               \/ (followup.id # 0 /\ last_apply.arg = "none"))
    /\ [][/\ StartupStep => state' # "INITIAL"
          /\ PollResultStep => state' # "INITIAL"
          /\ (state # "INITIAL" /\ state' = "INITIAL") => AfterProxyCmdStep
         ]_vars

\* a completion callback has reset the state to INITIAL and the result of
\* a poll issued before it waits to be applied
C29_Witness ==
    /\ state = "INITIAL"
    /\ startup.runs = 1
    /\ followup.id # 0 /\ ~followup.delivered
    /\ idleq # <<>>
    /\ Head(idleq).cb = "on_poll_result"
    /\ Head(idleq).id < followup.id

\* this step is the main loop running the callback of a command of one of
\* the given kinds
CompletionStep(cbs) ==
    /\ idleq # <<>>
    /\ Head(idleq).cb \in cbs
    /\ cb_runs'[Head(idleq).id] = cb_runs[Head(idleq).id] + 1

\* this step is the rest of an add callback: the answer to the restart
\* question of _show_restart_if_running
AddConfirmStep ==
    /\ uistack # <<>>
    /\ Top = "add_confirm"
    /\ uistack' # uistack
    /\ Len(uistack') <= Len(uistack)

\* this step is List All, the manual status check, Test All or Test Any
\* running its command
SyncStep ==
    /\ blocking' # blocking
    /\ ~StartupStep
    /\ blocking'.args \in {"ls", "ps", "test --all", "test"}

\* this step is the live preview of the settings dialog
PreviewStep ==
    /\ uistack # <<>>
    /\ Top = "settings"
    /\ UNCHANGED <<uistack, threads, idleq>>
    /\ (config' # config \/ last_read' # last_read \/ icon' # icon)

\* this step starts a restart command
RestartStep ==
    \E t \in threads' \ threads : t.args = "restart" /\ t.cb = "after_proxy_cmd"

C31_LastDeliveredWins ==
    [][PollResultStep =>
          /\ state' = rc_to_state(Head(idleq).rc)
          /\ idleq' = Tail(idleq)
          /\ \A i \in DOMAIN cb_runs :
                i # Head(idleq).id => cb_runs'[i] = cb_runs[i]
      ]_vars

\* two polls and nothing else were issued; the result of the second was
\* delivered first and its callback has run, the result of the first has
\* another classification and is the one delivered next
C31_Witness ==
    /\ next_id = 3 /\ last_poll = 2
    /\ cb_runs = <<0, 1>>
    /\ threads = {}
    /\ Len(idleq) = 1
    /\ Head(idleq).id = 1 /\ Head(idleq).cb = "on_poll_result"
    /\ last_apply.updated /\ last_apply.arg = state
    /\ rc_to_state(Head(idleq).rc) # state

\* the config a document stands for: a switch is on unless "0" is stored,
\* the logo style is the stored member name, in any case, or the default
Stored(st) ==
    [stop_on_quit    |-> ~st.exists \/ st.stop_on_quit \in {"null", "1"},
     ephemeral_ports |-> ~st.exists \/ st.ephemeral_ports \in {"null", "1"},
     logo_style      |-> IF st.exists /\ upper(st.logo_style) \in LogoStyle
                         THEN upper(st.logo_style) ELSE DEFAULT_LOGO_STYLE]

\* the defaults load_app_config passes to its reads
Defaults ==
    [stop_on_quit |-> TRUE, ephemeral_ports |-> TRUE,
     logo_style |-> DEFAULT_LOGO_STYLE]

\* this step closes the settings dialog without saving
CancelStep ==
    /\ uistack # <<>>
    /\ Top = "settings"
    /\ uistack' = Pop

\* C32: when the settings dialog is cancelled, whatever logo styles were
\* previewed, every setting of the in-memory config is afterwards what the
\* stored document holds for it or its default (the default where yq could
\* not read it), and the config is the stored one when every read worked;
\* the cancel leaves the state and the store as they are, and a live
\* preview changes neither the store nor the state.
C32_CancelRestoresConfig ==
    [][/\ CancelStep =>
            /\ \A key \in Settings :
                  config'[key] \in {Stored(store)[key], Defaults[key]}
            /\ \A key \in Settings :
                  NoValue(last_read'.reads[key]) => config'[key] = Defaults[key]
            /\ last_read'.reads = yq_reads(store) => config' = Stored(store)
            /\ ~last_read'.preview
            /\ UNCHANGED <<state, store>>
       /\ PreviewStep => UNCHANGED <<state, store>>
      ]_vars

\* settings were saved before, the dialog is open again and a preview has
\* set a logo style that the stored document does not hold
C32_Witness ==
    /\ uistack # <<>> /\ Top = "settings"
    /\ store \in Saved
    /\ last_read.preview
    /\ config.logo_style # Stored(store).logo_style
    /\ config.logo_style # DEFAULT_LOGO_STYLE

\* the states in which _show_restart_if_running offers a restart
RestartOffered == {"RUNNING", "STOPPED_PARTIALLY"}

\* the dialogs that ask 'Restart proxy to apply?'
ConfirmFrames == {"settings_confirm", "add_confirm"}

\* this step opens the restart question
OfferStep ==
    /\ uistack' # uistack
    /\ Len(uistack') >= Len(uistack)
    /\ uistack' # <<>>
    /\ uistack'[Len(uistack')] \in ConfirmFrames

\* this step is the save of the settings dialog and the rest of _on_settings
SavedStep ==
    /\ uistack # <<>>
    /\ Top = "settings"
    /\ Len(uistack') = Len(uistack)
    /\ uistack' # uistack

\* this step is the callback of an add command that added a forward
ForwardAddedStep ==
    /\ CompletionStep({"add_done"})
    /\ Head(idleq).rc = 0
    /\ Head(idleq).args = "add -l"

QuitStep == ~quit /\ quit'

\* C34: the step in which the main loop is asked to quit is the Quit
\* handler as a whole.  With stop_on_quit set in the in-memory config it
\* has run 'stop --keep-ports' itself, on the UI thread, and the call has
\* ended, with an exit code or with the timeout as ('Command timed out',
\* 1), before the quit; with stop_on_quit not set it has run nothing; in
\* neither case is a stop handed to a worker; a stop that was run is always
\* followed by the quit in the same handler, and nothing runs after it.
C34_StopBeforeQuit ==
    [][/\ ~quit
       /\ QuitStep =>
            /\ config.stop_on_quit =>
                  /\ blocking'.args = "stop --keep-ports"
                  /\ \E o \in Outcomes :
                        /\ blocking'.out = run_cmd(o).out
                        /\ blocking'.rc = run_cmd(o).rc
                  /\ blocking'.out = "Command timed out" => blocking'.rc = 1
            /\ ~config.stop_on_quit => blocking' = NoCall
            /\ \A t \in threads' : t \in threads
            /\ config' = config
       /\ blocking'.args = "stop --keep-ports" => quit'
      ]_vars

\* Quit with stop_on_quit set while the proxy runs: the stop timed out and
\* the main loop was asked to quit all the same
C34_Witness ==
    /\ quit
    /\ config.stop_on_quit
    /\ blocking.args = "stop --keep-ports"
    /\ blocking.out = "Command timed out"
    /\ state = "RUNNING"
    /\ timer.ticks >= 1

====
